---- MODULE Spec2Model ----
(***************************************************************************)
(* State-machine model of FileTools/file_cleanup.py (FileCleanupTool):     *)
(* scan -> size partition -> parallel hashing -> duplicate grouping ->     *)
(* retention resolution -> deletion -> empty-directory reaping.            *)
(***************************************************************************)
EXTENDS Integers, Sequences, FiniteSets, TLC

(***************************************************************************)
(* Bounds of the model and constants of the program.                       *)
(***************************************************************************)
\* number of files of a flat tree with files of any kind; a flat tree of files
\* with one timestamp holds one more
NFiles == 3
\* number of files of a deep tree
DeepFiles == 2
\* timestamps range over 0..MaxTime
MaxTime == 1
\* run(): max_attempts = 5
max_attempts == 5
\* run_recursive_extraction(max_iterations=3), as test_recursive_extraction calls it
max_iterations == 3

Files == 1..(NFiles + 1)
Times == 0..MaxTime

(***************************************************************************)
(* The directory tree under target_path: the root, a chain of nested       *)
(* directories one deeper than the pass cap of the reaper, and one side    *)
(* directory directly under the root.                                      *)
(***************************************************************************)
Root == 0
ChainDepth == max_attempts + 1
Side == ChainDepth + 1
Dirs == Root..Side

Parent(d) == IF d = Side THEN Root ELSE d - 1

RECURSIVE IsUnder(_, _)
\* d is a, or lies below a
IsUnder(d, a) ==
    IF d = a THEN TRUE
    ELSE IF d = Root THEN FALSE
    ELSE IsUnder(Parent(d), a)

RECURSIVE Depth(_)
Depth(d) == IF d = Root THEN 0 ELSE 1 + Depth(Parent(d))

\* len(path): every path component has the same length in the model
PathLen(d) == 1 + Depth(d)

(***************************************************************************)
(* File contents are byte strings: the empty file and two different files  *)
(* of one byte.                                                            *)
(***************************************************************************)
Contents == {<<>>, <<"x">>, <<"y">>}

VARIABLES
    dry_run,          \* self.dry_run
    fattr,            \* per file: directory, content, times, extension class
    md5,              \* the digest function: content -> digest
    files,            \* files that exist on disk
    dirs,             \* directories that exist on disk
    foreign,          \* directories holding an entry made by another process
    locked,           \* directories whose removal is denied
    pc,               \* position of run()
    stats,            \* self.stats
    future_to_file,   \* submitted hash tasks not yet collected
    file_hash_map,    \* dict digest -> [paths], in insertion order
    duplicates,       \* list of duplicate groups
    group_idx,        \* index of the group remove_duplicates is at
    file_to_keep,     \* survivor of the current group, <<>> before any
    files_to_remove,  \* rest of the current group's removal list
    empty_folders,    \* rest of the current pass's removal list
    attempt,          \* number of find_empty_folders scans of this run
    decisions,        \* history: the retention decisions logged by this run
    deleted,          \* history: files os.remove deleted
    reaped,           \* history: directories rmtree removed, with entry counts
    failures,         \* history: the failures logged at level ERROR
    run_no,           \* 1 for the first run, 2 for a repeated preview run
    prev,             \* history: outcome of the first run
    file_info_list,   \* the files the walk recorded with their size
    submitted,        \* history: the paths handed to executor.submit, in order
    reported,         \* history: the statistics the summary printed, <<>> before
    fast_hash,        \* self.fast_hash
    results,          \* results of the finished hash tasks not yet collected
    hash_calls,       \* history: (file, digest function) of every hash task run
    archives,         \* the archives of the extractor's tree: what each holds
    x_dry_run,        \* ArchiveExtractor: self.dry_run
    delete_after_extract, \* ArchiveExtractor: self.delete_after_extract
    xtree,            \* archive paths of the extractor's tree -> archive there, 0 if none
    xplain,           \* the extracted plain files in the extractor's tree
    xsub,             \* whether the subdirectory the archives name exists there
    x_pc,             \* position of run_recursive_extraction
    iteration,        \* run_recursive_extraction: iteration
    processed_files,  \* ArchiveExtractor: self.processed_files
    future_to_archive, \* submitted extraction tasks that have not run yet
    x_results,        \* results of the extraction tasks not yet collected
    xstats,           \* ArchiveExtractor: self.stats
    x_log,            \* history: the extract_archive calls, in order
    x_deleted         \* history: the paths delete_archive removed

\* the state of an ArchiveExtractor and of its tree
xvars == <<archives, x_dry_run, delete_after_extract, xtree, xplain, xsub, x_pc,
           iteration, processed_files, future_to_archive, x_results, xstats,
           x_log, x_deleted>>

\* the variables of the clean-up tool
cvars == <<dry_run, fattr, md5, locked, files, dirs, foreign, pc, stats, future_to_file,
           file_hash_map, duplicates, group_idx, file_to_keep, files_to_remove,
           empty_folders, attempt, decisions, deleted, reaped, failures,
           run_no, prev, file_info_list, submitted, reported, fast_hash, results,
           hash_calls>>

vars == <<cvars, xvars>>

disk == <<files, dirs, foreign>>
config == <<dry_run, fast_hash, fattr, md5, locked>>
scan == <<file_info_list, submitted>>
pool == <<results, hash_calls>>

(***************************************************************************)
(* Generic helpers.                                                        *)
(***************************************************************************)
RECURSIVE SetToSeq(_)
SetToSeq(S) ==
    IF S = {} THEN <<>>
    ELSE LET x == CHOOSE y \in S : TRUE IN <<x>> \o SetToSeq(S \ {x})

Range(s) == {s[i] : i \in 1..Len(s)}

(***************************************************************************)
(* __init__: the statistics of a fresh tool object.                        *)
(***************************************************************************)
InitStats ==
    [total_files |-> 0, duplicate_files |-> 0, duplicates_removed |-> 0,
     space_saved |-> 0, empty_folders_removed |-> 0]

(***************************************************************************)
(* File attributes as the program reads them.                              *)
(***************************************************************************)
FileDir(f) == fattr[f].dir
\* os.path.getsize
FileSize(f) == Len(fattr[f].content)

\* is_media_file: the extension is one of the media extensions
is_media_file(f) == fattr[f].kind = "media"

\* get_media_taken_time: a time, or None (the empty sequence)
get_media_taken_time(f) == IF is_media_file(f) THEN fattr[f].taken ELSE <<>>

\* get_file_creation_time: creation time on Windows, else modification time
get_file_creation_time(f) == fattr[f].created

\* calculate_file_hash: the digest of the content, or None when reading fails
calculate_file_hash(f) ==
    IF fattr[f].readable /\ f \in files THEN <<md5[fattr[f].content]>> ELSE <<>>

(***************************************************************************)
(* scan_files: inventory, size partition, submission of the hash tasks.    *)
(***************************************************************************)
InventoryWithoutSize ==
    IF Root \in dirs THEN {f \in files : FileDir(f) \in dirs} ELSE {}
\* os.walk(target_path): every file below the root whose size can be read
Inventory ==
    IF Root \in dirs
    THEN {f \in files : FileDir(f) \in dirs /\ fattr[f].sizeable}
    ELSE {}

SizeGroupSkippingEmpty(inv, s) ==
    IF s = 0 THEN {} ELSE {f \in inv : FileSize(f) = s}
\* size_groups[s]
SizeGroup(inv, s) == {f \in inv : FileSize(f) = s}

\* the keys of size_groups
SizesOf(inv) == {FileSize(f) : f \in inv}

GroupToHashAlways(group) == SetToSeq(group)
\* the paths of one size group handed to the pool: none of a group of one
GroupToHash(group) ==
    IF Cardinality(group) = 1 THEN <<>> ELSE SetToSeq(group)

RECURSIVE SubmitGroups(_, _)
\* the submitting loop over size_groups.items()
SubmitGroups(inv, sizes) ==
    IF sizes = <<>> THEN <<>>
    ELSE GroupToHash(SizeGroup(inv, Head(sizes))) \o SubmitGroups(inv, Tail(sizes))

\* the paths in the order of their executor.submit calls
SubmissionOrder(inv) == SubmitGroups(inv, SetToSeq(SizesOf(inv)))

\* the files submitted to the pool: those of size groups with several members
Submitted(inv) == Range(SubmissionOrder(inv))

\* file_hash_map[h].append(p), or file_hash_map[h] = [p] for a new digest
MapAppend(m, h, p) ==
    IF \E i \in 1..Len(m) : m[i].hash = h
    THEN [i \in 1..Len(m) |->
             IF m[i].hash = h THEN [m[i] EXCEPT !.paths = Append(@, p)] ELSE m[i]]
    ELSE Append(m, [hash |-> h, paths |-> <<p>>])

\* hashlib.md5(): the digest function calculate_file_hash uses
HashAlgorithm == "md5"

TaskStatsCountingFile(st) == [st EXCEPT !.total_files = @ + 1]
\* the statistics after a worker ran calculate_file_hash: it writes none
TaskStats(st) == st

\* future.result(): the value the task of f returned, or returns now
TaskResult(f) == IF f \in DOMAIN results THEN results[f] ELSE calculate_file_hash(f)

CollectResultKeepingFailures(m, f) ==
    LET file_hash == TaskResult(f) IN
    IF file_hash # <<>> THEN MapAppend(m, file_hash[1], f)
    ELSE MapAppend(m, <<"None">>, f)
\* the collecting loop's body for one completed future
CollectResult(m, f) ==
    LET file_hash == TaskResult(f) IN
    IF file_hash # <<>> THEN MapAppend(m, file_hash[1], f) ELSE m

AllResolvedNotAwaited == TRUE
\* as_completed is exhausted and the pool has shut down: no task is pending
AllResolved == future_to_file = {}

(***************************************************************************)
(* find_duplicates.                                                        *)
(***************************************************************************)
RECURSIVE DuplicateGroups(_)
\* the groups of the map with more than one path, in the map's order
DuplicateGroups(m) ==
    IF m = <<>> THEN <<>>
    ELSE IF Len(Head(m).paths) > 1
         THEN <<Head(m).paths>> \o DuplicateGroups(Tail(m))
         ELSE DuplicateGroups(Tail(m))

ExtraCopiesNone(groups) == 0
RECURSIVE ExtraCopiesCountingAll(_)
ExtraCopiesCountingAll(groups) ==
    IF groups = <<>> THEN 0
    ELSE Len(Head(groups)) + ExtraCopiesCountingAll(Tail(groups))
RECURSIVE ExtraCopies(_)
\* the sum of len(file_paths) - 1 over the groups
ExtraCopies(groups) ==
    IF groups = <<>> THEN 0
    ELSE (Len(Head(groups)) - 1) + ExtraCopies(Tail(groups))

(***************************************************************************)
(* remove_duplicates: retention resolution of one group.                   *)
(***************************************************************************)
is_media_group_any(group) == \E i \in 1..Len(group) : is_media_file(group[i])
\* all(self.is_media_file(p) for p in duplicate_group)
is_media_group(group) == \A i \in 1..Len(group) : is_media_file(group[i])

\* the (path, time, source) entry of one file
FileTimeEntry(f, media) ==
    IF media /\ get_media_taken_time(f) # <<>>
    THEN <<f, get_media_taken_time(f)[1], "taken">>
    ELSE <<f, get_file_creation_time(f), "created">>

\* file_times before sorting, in the group's order
FileTimes(group) ==
    [i \in 1..Len(group) |-> FileTimeEntry(group[i], is_media_group(group))]

RECURSIVE InsertByTime(_, _)
\* x put behind every entry whose time is not later than its own
InsertByTime(sorted, x) ==
    IF sorted = <<>> THEN <<x>>
    ELSE IF x[2] < Head(sorted)[2] THEN <<x>> \o sorted
    ELSE <<Head(sorted)>> \o InsertByTime(Tail(sorted), x)

SortByTimeSkipped(s) == s
RECURSIVE SortByTime(_)
\* file_times.sort(key=lambda x: x[1]): ascending and stable
SortByTime(s) ==
    IF s = <<>> THEN <<>>
    ELSE InsertByTime(SortByTime(SubSeq(s, 1, Len(s) - 1)), s[Len(s)])

\* file_to_keep = file_times[0][0]
FileToKeep(sorted) == sorted[1][1]

FilesToRemoveAll(sorted, keep) == [i \in 1..Len(sorted) |-> sorted[i][1]]
FilesToRemoveLaterOnly(sorted, keep) ==
    LET later == SelectSeq(sorted, LAMBDA e : e[2] > sorted[1][2])
    IN [i \in 1..Len(later) |-> later[i][1]]
\* [path for path, _ in file_times if path != file_to_keep]
FilesToRemove(sorted, keep) ==
    LET paths == [i \in 1..Len(sorted) |-> sorted[i][1]]
    IN SelectSeq(paths, LAMBDA p : p # keep)

(***************************************************************************)
(* remove_duplicates: the statistics after one deletion attempt.           *)
(***************************************************************************)
\* if self.dry_run: only log what would be removed
PreviewIgnored == FALSE
PreviewOnly == dry_run

StatsAfterRemoveCountingFailures(st, file_size, ok) ==
    [st EXCEPT !.duplicates_removed = @ + 1, !.space_saved = @ + file_size]
StatsAfterRemove(st, file_size, ok) ==
    IF ok
    THEN [st EXCEPT !.duplicates_removed = @ + 1, !.space_saved = @ + file_size]
    ELSE st

(***************************************************************************)
(* find_empty_folders and remove_empty_folders.                            *)
(***************************************************************************)
ChildDirs(d) == {c \in dirs : c # Root /\ Parent(c) = d}

EntriesFilesOnly(d) == Cardinality({f \in files : FileDir(f) = d})
\* len(os.listdir(d))
Entries(d) ==
    Cardinality({f \in files : FileDir(f) = d}) + Cardinality(ChildDirs(d))
    + (IF d \in foreign THEN 1 ELSE 0)

RECURSIVE WalkBottomUp(_)
\* os.walk(d, topdown=False): the subdirectories' walks, then d itself
WalkBottomUp(d) ==
    LET RECURSIVE Each(_)
        Each(cs) == IF cs = <<>> THEN <<>>
                    ELSE WalkBottomUp(Head(cs)) \o Each(Tail(cs))
    IN Each(SetToSeq(ChildDirs(d))) \o <<d>>

find_empty_folders_below_root ==
    IF Root \in dirs
    THEN SelectSeq(WalkBottomUp(Root), LAMBDA d : d # Root /\ Entries(d) = 0)
    ELSE <<>>
\* find_empty_folders: the walked directories that list no entry
find_empty_folders ==
    IF Root \in dirs
    THEN SelectSeq(WalkBottomUp(Root), LAMBDA d : Entries(d) = 0)
    ELSE <<>>

RECURSIVE InsertByLen(_, _)
InsertByLen(sorted, d) ==
    IF sorted = <<>> THEN <<d>>
    ELSE IF PathLen(d) > PathLen(Head(sorted)) THEN <<d>> \o sorted
    ELSE <<Head(sorted)>> \o InsertByLen(Tail(sorted), d)

RECURSIVE SortByLenDesc(_)
\* empty_folders.sort(key=len, reverse=True): longest first and stable
SortByLenDesc(s) ==
    IF s = <<>> THEN <<>>
    ELSE InsertByLen(SortByLenDesc(SubSeq(s, 1, Len(s) - 1)), s[Len(s)])

\* shutil.rmtree(d) raises when d is gone or its removal is denied
RmTreeSucceeds(d) == d \in dirs /\ d \notin locked

\* what shutil.rmtree(d) takes away: d and everything below it
RmTreeDirs(d) == {c \in dirs : IsUnder(c, d)}
RmTreeFiles(d) == {f \in files : IsUnder(FileDir(f), d)}

NextPassUncapped(n) == "reap_scan"
NextPassOneShort(n) == IF n < max_attempts - 1 THEN "reap_scan" ELSE "summary"
\* the loop of run(): another pass follows a removing pass below the cap
NextPassAfterRemoval(n) == IF n < max_attempts THEN "reap_scan" ELSE "summary"

(***************************************************************************)
(* Initial states: a tool object fresh from __init__ and a directory       *)
(* snapshot.  Files that agree in every attribute are interchangeable, so  *)
(* the attribute profiles are drawn in non-decreasing order.               *)
(***************************************************************************)
RECURSIVE NonDecreasing(_, _)
\* the non-decreasing sequences of length n over 1..k
NonDecreasing(n, k) ==
    IF n = 0 THEN {<<>>}
    ELSE UNION {{Append(s, i) : i \in (IF s = <<>> THEN 1 ELSE s[Len(s)])..k}
                : s \in NonDecreasing(n - 1, k)}

\* the assignments of profiles of P to n files, up to renaming of files
Snapshots(n, P) ==
    LET ps == SetToSeq(P)
    IN {[f \in 1..n |-> ps[ix[f]]] : ix \in NonDecreasing(n, Len(ps))}

\* a digest function without collisions: the content stands for its digest
InjectiveDigest == [c \in Contents |-> c]
\* a digest function under which the empty file and the file "x" collide
CollidingDigest == [c \in Contents |-> IF c = <<>> THEN <<"x">> ELSE c]

\* profiles of files without media extension, in the directories ds
PlainProfiles(ds, cs) ==
    [dir : ds, content : cs, created : Times, kind : {"doc"},
     taken : {<<>>}, readable : {TRUE}, sizeable : {TRUE}]

\* profiles of media files whose capture-time lookup returns the modified time
MediaProfiles(ds, cs) ==
    {[dir |-> d, content |-> c, created |-> t, kind |-> "media",
      taken |-> <<t>>, readable |-> TRUE, sizeable |-> TRUE]
        : d \in ds, c \in cs, t \in Times}

(***************************************************************************)
(* ArchiveExtractor (archive_extractor.py): the archives of its tree.  An  *)
(* archive of level k holds one plain file and, for k > 1, one archive of  *)
(* level k - 1; level 0 stands for no archive.                             *)
(***************************************************************************)
MaxNest == max_iterations + 1
Levels == 1..MaxNest
\* the paths in the target directory at which an archive can stand
XPaths == {"a.zip", "b.zip", "c.zip"}

\* __init__: the statistics of a fresh extractor
XInitStats ==
    [total_archives_found |-> 0, archives_processed |-> 0, files_extracted |-> 0,
     archives_deleted |-> 0, space_freed |-> 0, errors_encountered |-> 0]

\* the run state of a fresh extractor on the tree archives.tree
XFresh ==
    /\ xtree = archives.tree
    /\ xplain = {}
    /\ xsub = FALSE
    /\ iteration = 0
    /\ processed_files = {}
    /\ future_to_archive = {}
    /\ x_results = <<>>
    /\ xstats = XInitStats
    /\ x_log = <<>>
    /\ x_deleted = {}

\* no extractor runs: a tree without archives
ExtractorIdle ==
    /\ archives = [root |-> TRUE, inner |-> [k \in 2..MaxNest |-> "a.zip"],
                   corrupt |-> {}, locked |-> {}, subdir |-> FALSE,
                   tree |-> [p \in XPaths |-> 0]]
    /\ x_dry_run = FALSE
    /\ delete_after_extract = TRUE
    /\ x_pc = "idle"
    /\ XFresh

InitRun ==
    /\ pc = "start"
    /\ stats = InitStats
    /\ future_to_file = {}
    /\ file_hash_map = <<>>
    /\ duplicates = <<>>
    /\ group_idx = 0
    /\ file_to_keep = <<>>
    /\ files_to_remove = <<>>
    /\ empty_folders = <<>>
    /\ attempt = 0
    /\ decisions = <<>>
    /\ deleted = {}
    /\ reaped = {}
    /\ failures = {}
    /\ run_no = 1
    /\ prev = <<>>
    /\ file_info_list = {}
    /\ submitted = <<>>
    /\ reported = <<>>
    /\ results = <<>>
    /\ hash_calls = {}

\* profiles of plain files that cannot be opened for reading
UnreadableProfiles(ds, cs) ==
    {[p EXCEPT !.readable = FALSE] : p \in PlainProfiles(ds, cs)}

\* profiles of plain files that all have the earliest timestamp
SameTimeProfiles(ds, cs) == {p \in PlainProfiles(ds, cs) : p.created = 0}

\* profiles of plain files whose size cannot be read
UnsizeableProfiles(ds, cs) ==
    {[p EXCEPT !.sizeable = FALSE] : p \in PlainProfiles(ds, cs)}

\* profiles of media files whose capture-time lookup returns nothing, or a time
\* other than the file's own
MediaProfilesAnyTaken(ds, cs) ==
    {[dir |-> d, content |-> c, created |-> t, kind |-> "media",
      taken |-> tk, readable |-> TRUE, sizeable |-> TRUE]
        : d \in ds, c \in cs, t \in Times,
          tk \in {<<>>} \cup {<<u>> : u \in Times}}
    \ MediaProfiles(ds, cs)

\* a flat tree: NFiles files in the root: plain files of any content, or copies
\* of one media file, or copies of one plain file some of which are unreadable,
\* or copies of one plain file the size of some of which cannot be read;
\* or NFiles + 1 plain files of any content with one timestamp
InitFlat ==
    /\ dirs = {Root}
    /\ locked = {}
    /\ fattr \in Snapshots(NFiles, PlainProfiles({Root}, Contents))
                   \cup Snapshots(NFiles + 1, SameTimeProfiles({Root}, Contents))
                   \cup Snapshots(NFiles, MediaProfiles({Root}, {<<"x">>}))
                   \cup Snapshots(NFiles, PlainProfiles({Root}, {<<"x">>})
                                          \cup UnreadableProfiles({Root}, {<<"x">>}))
                   \cup Snapshots(NFiles, PlainProfiles({Root}, {<<"x">>})
                                          \cup UnsizeableProfiles({Root}, {<<"x">>}))

\* a flat tree of NFiles copies of one file, with and without media extension,
\* with and without capture time
InitFlatMedia ==
    /\ dirs = {Root}
    /\ locked = {}
    /\ fattr \in Snapshots(NFiles, PlainProfiles({Root}, {<<"x">>})
                                    \cup MediaProfilesAnyTaken({Root}, {<<"x">>}))

\* the directories of a deep tree: the chain down to directory k, and the
\* side directory or not
DeepDirs(k, side) == (Root..k) \cup (IF side THEN {Side} ELSE {})

\* a deep tree: DeepFiles copies of one file with one timestamp, each in the
\* root, at the end of the chain or in the side directory; the removal of the
\* directory at the end of the chain may be denied
InitDeep ==
    \E k \in Root..ChainDepth, side \in BOOLEAN :
        /\ dirs = DeepDirs(k, side)
        /\ locked \in {{}, {k} \ {Root}}
        /\ fattr \in Snapshots(DeepFiles,
                       SameTimeProfiles({Root, k} \cup (dirs \cap {Side}), {<<"x">>}))

\* a tree without files: the root alone, or the chain of empty directories
\* down to directory k, with the side directory or not; the removal of the
\* directory at the end of the chain may be denied
InitEmpty ==
    \E k \in Root..ChainDepth, side \in BOOLEAN :
        /\ dirs = DeepDirs(k, side)
        /\ locked \in {{}, {k} \ {Root}}
        /\ fattr = <<>>

\* no directory at target_path: nothing is there, or a regular file is
InitNoRoot ==
    /\ dirs = {}
    /\ locked = {}
    /\ fattr \in Snapshots(0, PlainProfiles({Root}, {<<"x">>}))
                   \cup Snapshots(1, PlainProfiles({Root}, {<<"x">>}))

InitDisk ==
    /\ InitFlat \/ InitDeep \/ InitEmpty \/ InitNoRoot
    /\ files = DOMAIN fattr
    /\ foreign = {}

Init ==
    /\ dry_run \in BOOLEAN
    /\ fast_hash = TRUE
    /\ md5 = InjectiveDigest
    /\ InitDisk
    /\ InitRun
    /\ ExtractorIdle

(***************************************************************************)
(* run(), up to the collecting loop of scan_files: path checks, the walk,  *)
(* the size partition and the submission of the hash tasks.                *)
(***************************************************************************)
RootCheckSkipped == TRUE
\* os.path.exists(target_path) and os.path.isdir(target_path)
RootIsDirectory == Root \in dirs

RunStart ==
    /\ pc = "start"
    /\ IF ~RootIsDirectory
       THEN /\ pc' = "done"
            /\ UNCHANGED <<stats, future_to_file, scan>>
       ELSE /\ file_info_list' = Inventory
            /\ stats' = [stats EXCEPT !.total_files = @ + Cardinality(Inventory)]
            /\ submitted' = SubmissionOrder(Inventory)
            /\ future_to_file' = Submitted(Inventory)
            /\ pc' = "collect"
    /\ UNCHANGED <<xvars, pool, config, disk, file_hash_map, duplicates, group_idx,
                   file_to_keep, files_to_remove, empty_folders, attempt,
                   decisions, deleted, reaped, failures, run_no, prev, reported>>

\* a worker of the pool runs the task of f: calculate_file_hash(f)
Hash(f) ==
    /\ pc = "collect"
    /\ f \in future_to_file
    /\ f \notin DOMAIN results
    /\ results' = results @@ (f :> calculate_file_hash(f))
    /\ hash_calls' = hash_calls \cup {<<f, HashAlgorithm>>}
    /\ stats' = TaskStats(stats)
    /\ UNCHANGED <<xvars, config, disk, pc, future_to_file, file_hash_map,
                   duplicates, group_idx, file_to_keep, files_to_remove,
                   empty_folders, attempt, decisions, deleted, reaped, failures,
                   run_no, prev, scan, reported>>

\* as_completed yields the future of f, whose task has finished or finishes
\* now: its result enters the map
Collect(f) ==
    /\ pc = "collect"
    /\ f \in future_to_file
    /\ file_hash_map' = CollectResult(file_hash_map, f)
    /\ future_to_file' = future_to_file \ {f}
    /\ failures' = IF TaskResult(f) = <<>>
                   THEN failures \cup {<<"hash", f>>} ELSE failures
    /\ hash_calls' = hash_calls \cup {<<f, HashAlgorithm>>}
    /\ results' = [g \in DOMAIN results \ {f} |-> results[g]]
    /\ UNCHANGED <<xvars, config, disk, pc, stats, duplicates, group_idx, file_to_keep,
                   files_to_remove, empty_folders, attempt, decisions, deleted,
                   reaped, run_no, prev, scan, reported>>

\* scan_files returns; find_duplicates; remove_duplicates up to its loop
FindDuplicates ==
    /\ pc = "collect"
    /\ AllResolved
    /\ duplicates' = DuplicateGroups(file_hash_map)
    /\ stats' = [stats EXCEPT
                   !.duplicate_files = @ + ExtraCopies(DuplicateGroups(file_hash_map))]
    /\ group_idx' = 1
    /\ pc' = IF DuplicateGroups(file_hash_map) = <<>> THEN "reap_scan" ELSE "resolve"
    /\ UNCHANGED <<xvars, pool, config, disk, future_to_file, file_hash_map, file_to_keep,
                   files_to_remove, empty_folders, attempt, decisions, deleted,
                   reaped, failures, run_no, prev, scan, reported>>

\* remove_duplicates: the timestamps of the current group, the survivor and
\* the removal list; a member that no longer exists raises out of the phase
Resolve ==
    /\ pc = "resolve"
    /\ LET group == duplicates[group_idx]
           sorted == SortByTime(FileTimes(group))
           keep == FileToKeep(sorted)
       IN IF \E i \in 1..Len(group) : group[i] \notin files
          THEN /\ pc' = "failed"
               /\ failures' = failures \cup {<<"run", group_idx>>}
               /\ UNCHANGED <<file_to_keep, files_to_remove, decisions>>
          ELSE /\ file_to_keep' = <<keep>>
               /\ files_to_remove' = FilesToRemove(sorted, keep)
               /\ decisions' = Append(decisions,
                     [group |-> group, file_times |-> sorted, keep |-> keep,
                      remove |-> FilesToRemove(sorted, keep)])
               /\ pc' = "delete"
               /\ UNCHANGED failures
    /\ UNCHANGED <<xvars, pool, config, disk, stats, future_to_file, file_hash_map, duplicates,
                   group_idx, empty_folders, attempt, deleted, reaped, run_no,
                   prev, scan, reported>>

AfterRemovalStopsOnFailure(rest) ==
    IF failures' # failures THEN "reap_scan"
    ELSE IF rest # <<>> THEN "delete"
    ELSE IF group_idx < Len(duplicates) THEN "resolve" ELSE "reap_scan"
\* where remove_duplicates goes once the removal list is `rest`
AfterRemoval(rest) ==
    IF rest # <<>> THEN "delete"
    ELSE IF group_idx < Len(duplicates) THEN "resolve" ELSE "reap_scan"

\* remove_duplicates: one iteration over files_to_remove (or none, when the
\* list is empty); os.remove succeeds or raises
Delete ==
    /\ pc = "delete"
    /\ IF files_to_remove = <<>>
       THEN UNCHANGED <<files, stats, deleted, failures, files_to_remove>>
       ELSE LET f == Head(files_to_remove) IN
            /\ files_to_remove' = Tail(files_to_remove)
            /\ IF PreviewOnly
               THEN UNCHANGED <<files, stats, deleted, failures>>
               ELSE \E ok \in (IF f \in files THEN BOOLEAN ELSE {FALSE}) :
                      /\ files' = IF ok THEN files \ {f} ELSE files
                      /\ deleted' = IF ok THEN deleted \cup {f} ELSE deleted
                      /\ stats' = StatsAfterRemove(stats, FileSize(f), ok)
                      /\ failures' = IF ok THEN failures
                                     ELSE failures \cup {<<"remove", f>>}
    /\ pc' = AfterRemoval(files_to_remove')
    /\ group_idx' = IF files_to_remove' = <<>> THEN group_idx + 1 ELSE group_idx
    /\ UNCHANGED <<xvars, pool, config, dirs, foreign, future_to_file, file_hash_map,
                   duplicates, file_to_keep, empty_folders, attempt, decisions,
                   reaped, run_no, prev, scan, reported>>

\* run(): one find_empty_folders scan of the reaper loop
ReapScan ==
    /\ pc = "reap_scan"
    /\ attempt' = attempt + 1
    /\ empty_folders' = SortByLenDesc(find_empty_folders)
    /\ pc' = IF find_empty_folders = <<>> THEN "summary" ELSE "reap_remove"
    /\ UNCHANGED <<xvars, pool, config, disk, stats, future_to_file, file_hash_map, duplicates,
                   group_idx, file_to_keep, files_to_remove, decisions, deleted,
                   reaped, failures, run_no, prev, scan, reported>>

\* remove_empty_folders: one iteration over empty_folders; shutil.rmtree
\* succeeds or raises
ReapRemove ==
    /\ pc = "reap_remove"
    /\ empty_folders # <<>>
    /\ LET d == Head(empty_folders) IN
       /\ empty_folders' = Tail(empty_folders)
       /\ IF PreviewOnly
          THEN UNCHANGED <<disk, stats, reaped, failures>>
          ELSE IF RmTreeSucceeds(d)
                 THEN /\ dirs' = dirs \ RmTreeDirs(d)
                      /\ files' = files \ RmTreeFiles(d)
                      /\ foreign' = foreign \ RmTreeDirs(d)
                      /\ stats' = [stats EXCEPT !.empty_folders_removed = @ + 1]
                      /\ reaped' = reaped \cup {[dir |-> d, entries |-> Entries(d)]}
                      /\ UNCHANGED failures
                 ELSE /\ failures' = failures \cup {<<"rmtree", d>>}
                      /\ UNCHANGED <<disk, stats, reaped>>
    /\ pc' = IF empty_folders' # <<>> THEN "reap_remove"
             ELSE NextPassAfterRemoval(attempt)
    /\ UNCHANGED <<xvars, pool, config, future_to_file, file_hash_map, duplicates, group_idx,
                   file_to_keep, files_to_remove, attempt, decisions, deleted,
                   run_no, prev, scan, reported>>

\* run(): the statistics summary
Summary ==
    /\ pc = "summary"
    /\ reported' = <<stats>>
    /\ pc' = "done"
    /\ UNCHANGED <<xvars, pool, config, disk, stats, future_to_file, file_hash_map, duplicates,
                   group_idx, file_to_keep, files_to_remove, empty_folders,
                   attempt, decisions, deleted, reaped, failures, run_no, prev,
                   scan>>

\* the survivor selections a run logged: (members, survivor) per group
Selections(ds) == {<<Range(ds[i].group), ds[i].keep>> : i \in 1..Len(ds)}

\* a second preview run on the same tree, by a fresh tool object
Rerun ==
    /\ pc = "done"
    /\ dry_run
    /\ run_no = 1
    /\ prev' = <<[selections |-> Selections(decisions), stats |-> stats,
                  failures |-> failures]>>
    /\ run_no' = 2
    /\ pc' = "start"
    /\ stats' = InitStats
    /\ future_to_file' = {}
    /\ file_hash_map' = <<>>
    /\ duplicates' = <<>>
    /\ group_idx' = 0
    /\ file_to_keep' = <<>>
    /\ files_to_remove' = <<>>
    /\ empty_folders' = <<>>
    /\ attempt' = 0
    /\ decisions' = <<>>
    /\ failures' = {}
    /\ file_info_list' = {}
    /\ submitted' = <<>>
    /\ reported' = <<>>
    /\ results' = <<>>
    /\ hash_calls' = {}
    /\ UNCHANGED <<xvars, config, disk, deleted, reaped>>

\* another process creates a file in a directory of the tree
ExternalCreate ==
    /\ pc \in {"reap_scan", "reap_remove"}
    /\ foreign = {}
    /\ \E d \in dirs : foreign' = {d}
    /\ UNCHANGED <<xvars, pool, config, files, dirs, pc, stats, future_to_file, file_hash_map,
                   duplicates, group_idx, file_to_keep, files_to_remove,
                   empty_folders, attempt, decisions, deleted, reaped, failures,
                   run_no, prev, scan, reported>>

\* another process deletes a file of a duplicate group while remove_duplicates
\* is under way
ExternalDelete ==
    /\ pc \in {"resolve", "delete"}
    /\ files \cup deleted = DOMAIN fattr
    /\ \E i \in 1..Len(duplicates) :
          \E f \in Range(duplicates[i]) \cap files : files' = files \ {f}
    /\ UNCHANGED <<xvars, pool, config, dirs, foreign, pc, stats, future_to_file,
                   file_hash_map, duplicates, group_idx, file_to_keep,
                   files_to_remove, empty_folders, attempt, decisions, deleted,
                   reaped, failures, run_no, prev, scan, reported>>

Next ==
    \/ RunStart
    \/ \E f \in Files : Collect(f)
    \/ FindDuplicates
    \/ Resolve
    \/ Delete
    \/ ReapScan
    \/ ReapRemove
    \/ Summary

\* one run of the tool on a tree no other process touches
Spec == Init /\ [][Next]_vars

\* a preview run may be repeated on the same tree
SpecRerun == Init /\ [][Next \/ Rerun]_vars

\* the digest function may map contents of different sizes to one digest
InitCollide ==
    /\ dry_run \in BOOLEAN
    /\ fast_hash = TRUE
    /\ md5 \in {InjectiveDigest, CollidingDigest}
    /\ InitDisk
    /\ InitRun
    /\ ExtractorIdle

SpecCollide == InitCollide /\ [][Next]_vars

\* another process may create a file while the reaper works
SpecEnv == Init /\ [][Next \/ ExternalCreate]_vars

\* another process may delete a file while the run is under way
SpecVanish == Init /\ [][Next \/ ExternalDelete]_vars

\* the tool may be configured with either digest mode
InitDigest ==
    /\ dry_run \in BOOLEAN
    /\ fast_hash \in BOOLEAN
    /\ md5 = InjectiveDigest
    /\ InitDisk
    /\ InitRun
    /\ ExtractorIdle

SpecDigest == InitDigest /\ [][Next]_vars

\* trees that mix media files and other files
InitMedia ==
    /\ dry_run \in BOOLEAN
    /\ fast_hash = TRUE
    /\ md5 = InjectiveDigest
    /\ InitFlatMedia \/ InitDeep
    /\ files = DOMAIN fattr
    /\ foreign = {}
    /\ InitRun
    /\ ExtractorIdle

SpecMedia == InitMedia /\ [][Next]_vars

\* the workers of the pool finish their tasks at any time before collection
SpecWorkers == Init /\ [][Next \/ \E f \in Files : Hash(f)]_vars

(***************************************************************************)
(* Properties.                                                             *)
(***************************************************************************)
\* ---------------------------------------------------------------------------
\* ArchiveExtractor
\*
\* archives describes the target directory and what its archives hold: an
\* archive of level k holds one plain file (below the directory "sub" when
\* archives.subdir) and, for k > 1, an archive of level k - 1 whose member name
\* is archives.inner[k]; its size is k.  Archives of the levels in
\* archives.corrupt cannot be read, the paths in archives.locked cannot be
\* removed.  xtree[p] is the level of the archive standing at p (0: none),
\* xplain the plain files extracted so far, xsub whether "sub" exists.

\* the chain of member names used where the names do not matter
PlainChain == [k \in 2..MaxNest |-> IF k = 2 THEN "c.zip" ELSE "b.zip"]

\* the trees a run starts on: an archive at a.zip, possibly one at b.zip
XTrees(maxLevel) ==
    {t \in [XPaths -> 0..maxLevel] : t["a.zip"] # 0 /\ t["c.zip"] = 0}

\* the target directories of the runs: nested archives under any member names;
\* an unreadable archive; an archive that cannot be removed; archives whose
\* plain file lies in a subdirectory; a missing target directory
XLayouts ==
    {[root |-> TRUE, inner |-> i, corrupt |-> {}, locked |-> {}, subdir |-> FALSE,
      tree |-> t] : i \in [2..MaxNest -> XPaths], t \in XTrees(MaxNest)}
    \cup {[root |-> TRUE, inner |-> PlainChain, corrupt |-> {k}, locked |-> {},
           subdir |-> FALSE, tree |-> t] : k \in 1..max_iterations,
                                           t \in XTrees(max_iterations)}
    \cup {[root |-> TRUE, inner |-> PlainChain, corrupt |-> {}, locked |-> {"a.zip"},
           subdir |-> FALSE, tree |-> t] : t \in XTrees(2)}
    \cup {[root |-> TRUE, inner |-> PlainChain, corrupt |-> {}, locked |-> {},
           subdir |-> TRUE, tree |-> t] : t \in XTrees(2)}
    \cup {[root |-> FALSE, inner |-> PlainChain, corrupt |-> {}, locked |-> {},
           subdir |-> FALSE, tree |-> [p \in XPaths |-> 0]]}

\* no clean-up run: the clean-up tool stands idle on an empty tree
CleanupIdle ==
    /\ dry_run = FALSE
    /\ fast_hash = TRUE
    /\ md5 = InjectiveDigest
    /\ fattr = <<>>
    /\ locked = {}
    /\ files = {}
    /\ dirs = {}
    /\ foreign = {}
    /\ InitRun

\* ArchiveExtractor(target_path, dry_run=..., delete_after_extract=...)
XInit ==
    /\ CleanupIdle
    /\ archives \in XLayouts
    /\ x_dry_run \in BOOLEAN
    /\ delete_after_extract \in BOOLEAN
    /\ x_pc = "start"
    /\ XFresh

\* os.walk(self.target_path): the files of the target directory
XWalk == [zips |-> {p \in XPaths : xtree[p] # 0}, txts |-> xplain]

\* run_recursive_extraction: the checks of the target path
XStart ==
    /\ x_pc = "start"
    /\ x_pc' = IF archives.root THEN "loop" ELSE "failed"
    /\ UNCHANGED <<cvars, archives, x_dry_run, delete_after_extract, xtree, xplain,
                   xsub, iteration, processed_files, future_to_archive, x_results,
                   xstats, x_log, x_deleted>>

\* one pass of the while loop up to the submission of the batch:
\* scan_archive_files, the two breaks, executor.submit for every new archive
XScan ==
    /\ x_pc = "loop"
    /\ iteration < max_iterations
    /\ iteration' = iteration + 1
    /\ LET archive_files == {p \in XPaths : xtree[p] # 0}
           new_archives == archive_files \ processed_files
       IN /\ xstats' = [xstats EXCEPT !.total_archives_found =
                                          @ + Cardinality(archive_files)]
          /\ IF archive_files = {} \/ new_archives = {}
             THEN /\ x_pc' = "summary"
                  /\ UNCHANGED <<future_to_archive, x_results>>
             ELSE /\ x_pc' = "batch"
                  /\ future_to_archive' = new_archives
                  /\ x_results' = [p \in new_archives |-> [st |-> "queued"]]
    /\ UNCHANGED <<cvars, archives, x_dry_run, delete_after_extract, xtree, xplain,
                   xsub, processed_files, x_log, x_deleted>>

\* extract_archive in a worker thread, up to the extraction into the temporary
\* directory: the processed_files check, the walk before, extract_func
XBegin(p) ==
    /\ x_pc = "batch"
    /\ p \in future_to_archive
    /\ x_results[p].st = "queued"
    /\ IF p \in processed_files
       THEN /\ x_results' = [x_results EXCEPT ![p] = [st |-> "done", ok |-> TRUE, n |-> 0]]
            /\ UNCHANGED <<processed_files, x_log>>
       ELSE /\ processed_files' = processed_files \cup {p}
            /\ IF xtree[p] = 0 \/ xtree[p] \in archives.corrupt
               THEN /\ x_results' = [x_results EXCEPT
                                       ![p] = [st |-> "done", ok |-> FALSE, n |-> 0]]
                    /\ x_log' = Append(x_log, [path |-> p, level |-> xtree[p],
                                               ok |-> FALSE, round |-> iteration])
               ELSE /\ x_results' = [x_results EXCEPT
                                       ![p] = [st |-> "running", before |-> XWalk,
                                               level |-> xtree[p]]]
                    /\ UNCHANGED x_log
    /\ UNCHANGED <<cvars, archives, x_dry_run, delete_after_extract, xtree, xplain,
                   xsub, x_pc, iteration, future_to_archive, xstats, x_deleted>>

\* os.makedirs(os.path.dirname(target_path), exist_ok=True) for the members
MakeDirs(sub) == sub \/ archives.subdir

\* extract_archive in a worker thread, from the move loop to the return: the
\* directory of every member is made, the members are moved unless dry_run,
\* the files that are new since the walk before are counted
XMove(p) ==
    /\ x_pc = "batch"
    /\ p \in future_to_archive
    /\ x_results[p].st = "running"
    /\ LET k == x_results[p].level
           before == x_results[p].before
           tree_after == IF ~x_dry_run /\ k > 1
                         THEN [xtree EXCEPT ![archives.inner[k]] = k - 1]
                         ELSE xtree
           plain_after == IF ~x_dry_run THEN xplain \cup {k} ELSE xplain
           new_files == Cardinality({q \in XPaths : tree_after[q] # 0} \ before.zips)
                        + Cardinality(plain_after \ before.txts)
       IN /\ xsub' = MakeDirs(xsub)
          /\ xtree' = tree_after
          /\ xplain' = plain_after
          /\ x_results' = [x_results EXCEPT
                             ![p] = [st |-> "done", ok |-> TRUE, n |-> new_files]]
          /\ x_log' = Append(x_log, [path |-> p, level |-> k, ok |-> TRUE,
                                     round |-> iteration])
    /\ UNCHANGED <<cvars, archives, x_dry_run, delete_after_extract, x_pc, iteration,
                   processed_files, future_to_archive, xstats, x_deleted>>

DeleteWantedAlways(ok) == delete_after_extract
\* process_archive_batch: delete_archive is called for a successful extraction
\* when delete_after_extract is set
DeleteWanted(ok) == ok /\ delete_after_extract

\* delete_archive(p) can remove the file
Removable(p) == xtree[p] # 0 /\ p \notin archives.locked

\* process_archive_batch: one pass of the as_completed loop, delete_archive
\* included; the loop of run_recursive_extraction goes on after the last one
XCollect(p) ==
    /\ x_pc = "batch"
    /\ p \in future_to_archive
    /\ x_results[p].st = "done"
    /\ LET r == x_results[p]
           counted == IF r.ok
                      THEN [xstats EXCEPT !.archives_processed = @ + 1,
                                          !.files_extracted = @ + r.n]
                      ELSE [xstats EXCEPT !.errors_encountered = @ + 1]
       IN IF DeleteWanted(r.ok) /\ ~x_dry_run
          THEN IF Removable(p)
               THEN /\ xtree' = [xtree EXCEPT ![p] = 0]
                    /\ x_deleted' = x_deleted \cup {p}
                    /\ xstats' = [counted EXCEPT !.space_freed = @ + xtree[p],
                                                 !.archives_deleted = @ + 1]
               ELSE /\ xstats' = [counted EXCEPT !.errors_encountered = @ + 1]
                    /\ UNCHANGED <<xtree, x_deleted>>
          ELSE /\ xstats' = counted
               /\ UNCHANGED <<xtree, x_deleted>>
    /\ future_to_archive' = future_to_archive \ {p}
    /\ x_results' = [q \in DOMAIN x_results \ {p} |-> x_results[q]]
    /\ x_pc' = IF future_to_archive' = {} THEN "loop" ELSE "batch"
    /\ UNCHANGED <<cvars, archives, x_dry_run, delete_after_extract, xplain, xsub,
                   iteration, processed_files, x_log>>

\* run_recursive_extraction: the loop is left by a break or by the bound, the
\* statistics are logged
XSummary ==
    /\ \/ x_pc = "summary"
       \/ x_pc = "loop" /\ iteration >= max_iterations
    /\ x_pc' = "done"
    /\ UNCHANGED <<cvars, archives, x_dry_run, delete_after_extract, xtree, xplain,
                   xsub, iteration, processed_files, future_to_archive, x_results,
                   xstats, x_log, x_deleted>>

XNext ==
    \/ XStart
    \/ XScan
    \/ \E p \in XPaths : XBegin(p)
    \/ \E p \in XPaths : XMove(p)
    \/ \E p \in XPaths : XCollect(p)
    \/ XSummary

\* one run of run_recursive_extraction on a directory no other process touches
SpecExtract == XInit /\ [][XNext]_vars

RECURSIVE SumOver(_, _)
\* the sum of w[x] over the x of S
SumOver(S, w) ==
    IF S = {} THEN 0
    ELSE LET x == CHOOSE y \in S : TRUE IN w[x] + SumOver(S \ {x}, w)

\* the timestamp the resolver uses for f as a member of group
ResolvedTime(f, group) == FileTimeEntry(f, is_media_group(group))[2]

\* directories that exist and list no entry
EmptyDirs == {d \in dirs : Entries(d) = 0}

\* the rmtree calls of this run that raised
RmTreeFailures == {e \in failures : e[1] = "rmtree"}

\* the directories rmtree removed in this run
ReapedDirs == {r.dir : r \in reaped}

\* C1: for every duplicate set remove_duplicates processed, exactly one member
\* is the survivor and the removal list holds every other member once, and
\* nothing else.
C1_ExactlyOneSurvivor ==
    \A i \in 1..Len(decisions) :
        LET d == decisions[i] IN
        /\ d.keep \in Range(d.group)
        /\ Range(d.remove) = Range(d.group) \ {d.keep}
        /\ Len(d.remove) = Len(d.group) - 1

\* C1 witness: a set of three members or more, two of them with the earliest
\* timestamp, has been resolved.
C1_Witness ==
    \E i \in 1..Len(decisions) :
        /\ Len(decisions[i].group) >= 3
        /\ decisions[i].file_times[1][2] = decisions[i].file_times[2][2]

\* C2: the survivor of every processed duplicate set has the minimum resolved
\* timestamp of the set.
C2_SurvivorIsEarliest ==
    \A i \in 1..Len(decisions) :
        LET d == decisions[i] IN
        \A j \in 1..Len(d.group) :
            ResolvedTime(d.keep, d.group) <= ResolvedTime(d.group[j], d.group)

\* C2 witness: the survivor is strictly earlier than the member whose hash
\* result arrived first.
C2_Witness ==
    \E i \in 1..Len(decisions) :
        LET d == decisions[i] IN
        /\ d.keep # d.group[1]
        /\ ResolvedTime(d.keep, d.group) < ResolvedTime(d.group[1], d.group)

\* C3: a repeated preview run on the same tree selects the same survivors and
\* reports the same statistics as the first run.
C3_RerunDeterministic ==
    (run_no = 2 /\ pc = "done") =>
        /\ Selections(decisions) = prev[1].selections
        /\ stats = prev[1].stats

\* C4: no duplicate set holds two files of different sizes.
C4_SetsOfOneSize ==
    \A i \in 1..Len(duplicates) :
        \A f \in Range(duplicates[i]), g \in Range(duplicates[i]) :
            FileSize(f) = FileSize(g)

\* C5: in execute mode space_saved is the sum of the sizes of the files the
\* executor deleted so far and duplicates_removed their number; the files it
\* deleted are the files gone from disk, so a failed attempt counts nothing.
C5_Conservation ==
    ~dry_run =>
        /\ deleted = (DOMAIN fattr) \ files
        /\ stats.space_saved = SumOver(deleted, [f \in DOMAIN fattr |-> FileSize(f)])
        /\ stats.duplicates_removed = Cardinality(deleted)

\* C5 witness: an execute run ended with two files deleted, one of them
\* non-empty, and one deletion failed.
C5_Witness ==
    /\ ~dry_run
    /\ pc = "done"
    /\ Cardinality(deleted) = 2
    /\ stats.space_saved >= 1
    /\ stats.duplicate_files = 3

\* C6: in preview mode no step of the run removes a file or a directory, and
\* duplicates_removed, space_saved and empty_folders_removed stay 0.
C6_PreviewFrame ==
    [][dry_run =>
        /\ files' = files
        /\ dirs' = dirs
        /\ stats'.duplicates_removed = 0
        /\ stats'.space_saved = 0
        /\ stats'.empty_folders_removed = 0]_vars

\* C6 witness: a preview run ended that had removals to preview: a resolved
\* duplicate set and an empty directory.
C6_Witness ==
    /\ dry_run
    /\ pc = "done"
    /\ decisions # <<>>
    /\ EmptyDirs # {}

\* C7: every directory the reaper removed had no entry at the moment of its
\* removal.
C7_RemovedOnlyEmpty == \A r \in reaped : r.entries = 0

\* C8: the reaper scans at most max_attempts times; a scan that finds no empty
\* directory ends the loop at once, and after the loop nothing is scanned or
\* removed.
C8_ReaperTerminates ==
    /\ [](attempt <= max_attempts)
    /\ [][(pc = "reap_scan" /\ find_empty_folders = <<>>) =>
            (pc' = "summary" /\ dirs' = dirs)]_vars
    /\ [][(pc = "summary" \/ pc = "done") =>
            (attempt' = attempt /\ dirs' = dirs /\ pc' \in {"summary", "done"})]_vars

\* C8 witness: an execute run left the loop at the pass cap, each pass having
\* removed a directory.
C8_Witness ==
    /\ ~dry_run
    /\ pc = "summary"
    /\ attempt = max_attempts
    /\ Cardinality(reaped) = max_attempts
    /\ failures = {}

\* C9 as claimed: at the end of an execute run in which no removal failed, no
\* directory that lay on the path of a deleted duplicate is left empty, whatever
\* the depth of the chain.
C9_NoEmptyChainLeft ==
    (pc = "done" /\ ~dry_run /\ RmTreeFailures = {}) =>
        \A d \in dirs \ {Root} :
            (\E f \in deleted : IsUnder(FileDir(f), d)) => Entries(d) # 0

\* the number of directory levels emptied at and below d: d itself and the
\* removed directories below it
EmptiedLevels(d) ==
    LET below == {r \in ReapedDirs : IsUnder(r, d)}
    IN 1 + (IF below = {} THEN 0
            ELSE Depth(CHOOSE r \in below : \A q \in below : Depth(q) <= Depth(r))
                 - Depth(d))

\* C9 amended: at the end of an execute run in which no removal failed, every
\* directory below the root that is left empty tops a chain of more than
\* max_attempts emptied levels; chains of up to max_attempts levels are removed
\* whole.
C9_NoEmptyChainWithinCap ==
    (pc = "done" /\ ~dry_run /\ RmTreeFailures = {}) =>
        \A d \in dirs \ {Root} : Entries(d) = 0 => EmptiedLevels(d) > max_attempts

\* C9 witness: a duplicate max_attempts levels below the root was deleted and
\* the whole chain above it was removed, one level per pass.
C9_Witness ==
    /\ pc = "done"
    /\ ~dry_run
    /\ RmTreeFailures = {}
    /\ EmptyDirs = {}
    /\ \E f \in deleted :
          /\ Depth(FileDir(f)) = max_attempts
          /\ \A d \in Dirs \ {Root} : IsUnder(FileDir(f), d) => d \in ReapedDirs

\* C10: in preview mode the reaper scans for empty directories once only.
C10_PreviewScansOnce == dry_run => attempt <= 1

\* the hash task of f returned None
HashFailed(f) == <<"hash", f>> \in failures

\* f is listed in the digest map under the digest h
InMap(f, h) ==
    \E i \in 1..Len(file_hash_map) :
        file_hash_map[i].hash = h /\ f \in Range(file_hash_map[i].paths)

\* f is listed in the digest map under some digest
InSomeGroup(f) ==
    \E i \in 1..Len(file_hash_map) : f \in Range(file_hash_map[i].paths)

\* scan_files has returned
ScanReturned == pc \notin {"start", "collect"}

\* os.remove was called for f, and returned or raised
Attempted(f) == f \in deleted \/ <<"remove", f>> \in failures

\* remove_duplicates has returned
RemovalReturned == pc \in {"reap_scan", "reap_remove", "summary", "done"}

\* the run has ended: run() returned, from its try block or its handler
RunEnded == pc \in {"done", "failed"}

\* the failures of single files and directories the run logged
PerFileFailures == {e \in failures : e[1] \in {"hash", "remove", "rmtree"}}

\* the error count a printed statistics record shows
ErrorCount(r) == IF "errors" \in DOMAIN r THEN r.errors ELSE 0

\* C11: find_duplicates and every later phase start only when no submitted
\* hash task is pending, and the digest map then lists every submitted file
\* whose hash task succeeded under its digest.
C11_HashBarrier ==
    ScanReturned =>
        /\ future_to_file = {}
        /\ \A f \in Range(submitted) :
              fattr[f].readable => InMap(f, md5[fattr[f].content])

\* C11 witness: grouping has started after three or more tasks resolved, one of
\* them with failure.
C11_Witness ==
    /\ pc = "resolve"
    /\ Len(submitted) >= 3
    /\ \E f \in Range(submitted) : HashFailed(f)

\* C12: a file whose hash task failed is in no digest group, in no duplicate
\* set, and is never deleted; once the scan has returned the failed tasks are
\* those of the unreadable files and every other submitted file is in the group
\* of its digest.
C12_FailedHashExcluded ==
    /\ \A f \in DOMAIN fattr :
          HashFailed(f) =>
              /\ ~InSomeGroup(f)
              /\ \A i \in 1..Len(duplicates) : f \notin Range(duplicates[i])
              /\ f \notin deleted
              /\ f \in files
    /\ ScanReturned =>
          \A g \in Range(submitted) :
              /\ HashFailed(g) <=> ~fattr[g].readable
              /\ ~HashFailed(g) => InMap(g, md5[fattr[g].content])

\* C12 witness: an execute run ended in which a hash task failed and a
\* duplicate among the other files was deleted.
C12_Witness ==
    /\ ~dry_run
    /\ pc = "done"
    /\ \E f \in DOMAIN fattr : HashFailed(f)
    /\ deleted # {}

\* C13: when remove_duplicates has returned in execute mode, every duplicate
\* set was resolved and os.remove was called for every file of every removal
\* list, whatever calls failed before.
C13_DeletionContinues ==
    (~dry_run /\ RemovalReturned) =>
        /\ Len(decisions) = Len(duplicates)
        /\ \A i \in 1..Len(decisions) :
              \A f \in Range(decisions[i].remove) : Attempted(f)

\* C13 witness: a deletion failed, and a file later in the same removal list or
\* in the list of a later set was deleted after it.
C13_Witness ==
    /\ ~dry_run
    /\ pc = "done"
    /\ \E i \in 1..Len(decisions) : \E j \in 1..Len(decisions[i].remove) :
          /\ <<"remove", decisions[i].remove[j]>> \in failures
          /\ \E i2 \in i..Len(decisions) : \E j2 \in 1..Len(decisions[i2].remove) :
                /\ i2 > i \/ j2 > j
                /\ decisions[i2].remove[j2] \in deleted

\* C14: no failure on a single file ends the run: when the run has ended, every
\* duplicate set was resolved and the reaper has scanned, also when a member of
\* a set vanished before its timestamp was read.
C14_ErrorsRecoveredLocally ==
    (RunEnded /\ duplicates # <<>>) =>
        /\ Len(decisions) = Len(duplicates)
        /\ attempt >= 1

\* C15: the summary of a run in which single files or directories failed shows
\* an error count equal to the number of these failures.
C15_ErrorsCounted ==
    (reported # <<>> /\ PerFileFailures # {}) =>
        ErrorCount(reported[1]) = Cardinality(PerFileFailures)

\* the run found no directory at target_path
RootMissing == Root \notin dirs /\ Root \notin ReapedDirs

\* C16: when target_path is no directory, run returns before scanning: nothing
\* is scanned, hashed, deleted or removed, no file changes, and every statistic
\* stays 0.
C16_NoRootAborts ==
    RootMissing =>
        /\ pc \in {"start", "done"}
        /\ stats = InitStats
        /\ file_info_list = {}
        /\ submitted = <<>>
        /\ file_hash_map = <<>>
        /\ attempt = 0
        /\ deleted = {}
        /\ reaped = {}
        /\ files = DOMAIN fattr
        /\ dirs = {}

\* C16 witness: the run has ended on a target_path that names a regular file.
C16_Witness ==
    /\ RootMissing
    /\ pc = "done"
    /\ files # {}

\* C17: a run ended by an exception that escaped a phase has printed the
\* statistics summary, with the counts reached at the failure.
C17_FailureStillReports == pc = "failed" => reported = <<stats>>

\* C18: no file is deleted before the survivor of every duplicate set is
\* resolved, and the reaper does not scan before remove_duplicates is through.
C18_PhasesDoNotOverlap ==
    /\ deleted # {} => Len(decisions) = Len(duplicates)
    /\ attempt > 0 => pc \notin {"resolve", "delete"}

\* C19: after find_duplicates the duplicate sets are exactly the lists of the
\* digest map with two or more paths, each once, and duplicate_files is the sum
\* of (size - 1) over the sets.
C19_FindDuplicates ==
    ScanReturned =>
        /\ \A i \in 1..Len(file_hash_map) :
              Len(file_hash_map[i].paths) >= 2 <=>
                  \E j \in 1..Len(duplicates) : duplicates[j] = file_hash_map[i].paths
        /\ Len(duplicates) =
              Cardinality({i \in 1..Len(file_hash_map) :
                              Len(file_hash_map[i].paths) >= 2})
        /\ stats.duplicate_files =
              SumOver(1..Len(duplicates),
                      [j \in 1..Len(duplicates) |-> Len(duplicates[j]) - 1])

\* C19 witness: find_duplicates returned a set of three files and left out a
\* digest group of one.
C19_Witness ==
    /\ pc = "resolve"
    /\ \E i \in 1..Len(file_hash_map) : Len(file_hash_map[i].paths) = 1
    /\ \E j \in 1..Len(duplicates) : Len(duplicates[j]) = 3

\* C20: a scanned file is submitted for hashing exactly when another scanned
\* file has its size, and then once; only submitted files are hashed, so a file
\* alone in its size group has no hash result and is in no digest group.
C20_SubmittedIffSizeShared ==
    /\ \A f \in file_info_list :
          f \in Range(submitted) <=>
              \E g \in file_info_list \ {f} : FileSize(g) = FileSize(f)
    /\ Range(submitted) \subseteq file_info_list
    /\ \A i \in 1..Len(submitted), j \in 1..Len(submitted) :
          submitted[i] = submitted[j] => i = j
    /\ \A f \in DOMAIN fattr :
          (InSomeGroup(f) \/ HashFailed(f)) => f \in Range(submitted)

\* C20 witness: the scan returned with two files of one size hashed and a file
\* of another size left out.
C20_Witness ==
    /\ ScanReturned
    /\ file_hash_map # <<>>
    /\ \E f \in file_info_list : ~InSomeGroup(f) /\ ~HashFailed(f)

\* the digest function the configured mode names: MD5 in the fast mode,
\* SHA256 in the strong mode
ConfiguredAlgorithm == IF fast_hash THEN "md5" ELSE "sha256"

\* C21: every hash task of the run computes its digest with the function of the
\* configured mode.
C21_DigestFollowsMode == \A e \in hash_calls : e[2] = ConfiguredAlgorithm

\* the scanned files of size 0
ZeroByte == {f \in file_info_list : FileSize(f) = 0}

\* the os.remove calls of this run that raised
RemoveFailures == {e \in failures : e[1] = "remove"}

\* C22: two or more zero-byte files form exactly one duplicate set, whose
\* resolution keeps one of them and lists every other one for removal; in
\* execute mode every deleted file counts 1 in duplicates_removed and the
\* deleted zero-byte files add nothing to space_saved, and when no deletion
\* failed exactly one zero-byte file is left.
C22_ZeroByteSet ==
    (ScanReturned /\ Cardinality(ZeroByte) >= 2) =>
        /\ Cardinality({i \in 1..Len(duplicates) : Range(duplicates[i]) = ZeroByte}) = 1
        /\ \A i \in 1..Len(decisions) :
              Range(decisions[i].group) = ZeroByte =>
                  /\ decisions[i].keep \in ZeroByte
                  /\ Range(decisions[i].remove) = ZeroByte \ {decisions[i].keep}
        /\ ~dry_run =>
              /\ stats.duplicates_removed = Cardinality(deleted)
              /\ stats.space_saved =
                    SumOver(deleted \ ZeroByte, [f \in DOMAIN fattr |-> FileSize(f)])
        /\ (~dry_run /\ RemovalReturned /\ RemoveFailures = {}) =>
              Cardinality(ZeroByte \cap files) = 1

\* C22 witness: an execute run ended that deleted two of three zero-byte files.
C22_Witness ==
    /\ ~dry_run
    /\ pc = "done"
    /\ Cardinality(ZeroByte \cap deleted) = 2
    /\ stats.duplicates_removed = 2
    /\ stats.space_saved = 0

\* C26: the timestamp recorded for a member of a resolved set is its capture
\* time exactly when every member of the set has a media extension and the
\* member's lookup returned a time; in every other case it is the member's
\* creation (or modification) time.
C26_TimestampSource ==
    \A i \in 1..Len(decisions) :
        LET d == decisions[i]
            allMedia == \A g \in Range(d.group) : fattr[g].kind = "media"
        IN \A j \in 1..Len(d.file_times) :
              LET e == d.file_times[j]
                  f == e[1]
              IN IF allMedia /\ fattr[f].taken # <<>>
                 THEN e[2] = fattr[f].taken[1] /\ e[3] = "taken"
                 ELSE e[2] = fattr[f].created /\ e[3] = "created"

\* C26 witness: an all-media set was resolved in which one member has a capture
\* time that differs from its creation time and another member has none.
C26_Witness ==
    \E i \in 1..Len(decisions) :
        LET d == decisions[i] IN
        /\ \A g \in Range(d.group) : fattr[g].kind = "media"
        /\ \E g \in Range(d.group) :
              fattr[g].taken # <<>> /\ fattr[g].taken[1] # fattr[g].created
        /\ \E g \in Range(d.group) : fattr[g].taken = <<>>

\* the files of the tree whose size cannot be read
Unsizeable == {f \in DOMAIN fattr : ~fattr[f].sizeable}

\* C27: once the walk is through, the inventory holds exactly the files whose
\* size was read and total_files is their number; a file whose size could not
\* be read is in no size group, so it is neither hashed nor grouped nor deleted.
C27_SizeFailureSkipped ==
    (pc # "start" /\ ~RootMissing) =>
        /\ file_info_list = (DOMAIN fattr) \ Unsizeable
        /\ stats.total_files = Cardinality((DOMAIN fattr) \ Unsizeable)
        /\ \A f \in Unsizeable :
              /\ f \notin Range(submitted)
              /\ ~InSomeGroup(f)
              /\ f \in files

\* C27 witness: the scan skipped one file and found the other files duplicates.
C27_Witness ==
    /\ ScanReturned
    /\ Unsizeable # {}
    /\ duplicates # <<>>

\* C28: a step of a worker task leaves the statistics as they are, and
\* whatever the interleaving of the tasks total_files is the number of
\* inventoried files and duplicates_removed the number of deleted files.
C28_NoLostUpdate ==
    /\ [][(\E f \in Files : Hash(f)) => stats' = stats]_vars
    /\ [](ScanReturned => stats.total_files = Cardinality(file_info_list))
    /\ [](stats.duplicates_removed = Cardinality(deleted))

\* C28 witness: two tasks have finished while the collecting thread has
\* already put a result into the map.
C28_Witness ==
    /\ pc = "collect"
    /\ Cardinality(DOMAIN results) >= 2
    /\ file_hash_map # <<>>

\* C29: every deleted file is a member, other than the survivor, of a resolved
\* duplicate set; the survivor of every resolved set exists, a file of no
\* duplicate set exists, and when remove_duplicates has returned every
\* duplicate set has a member left.
C29_DeletedAreNonSurvivors ==
    /\ \A f \in deleted :
          \E i \in 1..Len(decisions) :
              f \in Range(decisions[i].group) /\ f # decisions[i].keep
    /\ \A i \in 1..Len(decisions) : decisions[i].keep \in files
    /\ \A f \in DOMAIN fattr :
          (\A i \in 1..Len(duplicates) : f \notin Range(duplicates[i])) => f \in files
    /\ RemovalReturned =>
          \A i \in 1..Len(duplicates) : Range(duplicates[i]) \cap files # {}

\* C29 witness: an execute run ended without failure that deleted two files and
\* had a file of no duplicate set in its tree.
C29_Witness ==
    /\ ~dry_run
    /\ pc = "done"
    /\ failures = {}
    /\ Cardinality(deleted) >= 2
    /\ \E f \in file_info_list : \A i \in 1..Len(duplicates) : f \notin Range(duplicates[i])

\* C30: duplicates_removed <= duplicate_files <= total_files in every state, and
\* at the end of an execute run in which no deletion failed duplicates_removed
\* equals duplicate_files.
C30_CounterOrdering ==
    /\ stats.duplicates_removed <= stats.duplicate_files
    /\ stats.duplicate_files <= stats.total_files
    /\ (pc = "done" /\ ~dry_run /\ RemoveFailures = {}) =>
          stats.duplicates_removed = stats.duplicate_files

\* C30 witness: an execute run over four files ended with both of its two
\* deletions done.
C30_Witness ==
    /\ pc = "done"
    /\ ~dry_run
    /\ RemoveFailures = {}
    /\ stats.total_files = 4
    /\ stats.duplicate_files = 2
    /\ stats.duplicates_removed = 2

\* the log entries of the extractions that failed, and their paths
XFailedEntries == {i \in 1..Len(x_log) : ~x_log[i].ok}
XFailed == {x_log[i].path : i \in XFailedEntries}

\* no batch is being processed
XBatchOver == x_pc = "loop" \/ x_pc = "summary" \/ x_pc = "done"

\* the delete_archive calls that raised: successful extractions whose archive
\* was to be removed and was not
XDeleteFailures ==
    IF delete_after_extract /\ ~x_dry_run
    THEN xstats.archives_processed - xstats.archives_deleted
    ELSE 0

\* C23: delete_archive never removes an archive whose extraction failed, and a
\* file still stands at its path; after a batch errors_encountered counts every
\* failed extraction (and every failed deletion), every archive submitted has
\* been extracted or has failed, and the run ends with an unprocessed archive
\* in the tree only when the round bound is reached.
C23_FailureIsolated ==
    /\ XFailed \cap x_deleted = {}
    /\ \A p \in XFailed : xtree[p] # 0
    /\ XBatchOver =>
          /\ xstats.errors_encountered = Cardinality(XFailedEntries) + XDeleteFailures
          /\ processed_files = {x_log[i].path : i \in 1..Len(x_log)}
    /\ x_pc = "done" =>
          \A p \in XPaths :
              (xtree[p] # 0 /\ p \notin processed_files) => iteration = max_iterations

\* C23 witness: a run ended in which one archive failed, another archive of the
\* same batch was extracted and deleted, and an archive of a later round was
\* extracted.
C23_Witness ==
    /\ x_pc = "done"
    /\ xstats.errors_encountered = 1
    /\ x_deleted # {}
    /\ \E i \in XFailedEntries :
          /\ \E j \in 1..Len(x_log) :
                x_log[j].ok /\ x_log[j].round = x_log[i].round /\ x_log[j].path \in x_deleted
          /\ \E j \in 1..Len(x_log) : x_log[j].ok /\ x_log[j].round > x_log[i].round

\* C24: in preview mode no step changes the archives, the extracted files or
\* the directories of the target tree, and archives_deleted and space_freed
\* stay 0.
C24_PreviewLeavesTreeAlone ==
    /\ [][x_dry_run => (xtree' = xtree /\ xplain' = xplain /\ xsub' = xsub)]_vars
    /\ [](x_dry_run => (xstats.archives_deleted = 0 /\ xstats.space_freed = 0))

\* the nesting depth of the archives the run starts on
XDepth == CHOOSE k \in 0..MaxNest :
              /\ \A p \in XPaths : archives.tree[p] <= k
              /\ \E p \in XPaths : archives.tree[p] = k

\* C25: the loop makes at most max_iterations rounds, no path is extracted
\* twice, and a run with delete_after_extract in which nothing failed, on
\* archives nested less than max_iterations deep, ends with no archive in the
\* target tree.
C25_RecursiveExtraction ==
    /\ iteration <= max_iterations
    /\ \A i, j \in 1..Len(x_log) : x_log[i].path = x_log[j].path => i = j
    /\ (/\ x_pc = "done"
        /\ delete_after_extract
        /\ ~x_dry_run
        /\ xstats.errors_encountered = 0
        /\ XDepth < max_iterations)
          => \A p \in XPaths : xtree[p] = 0

\* C31: in execute mode a scan of the reaper lists the root when the root has no
\* entry; the removal of the listed root takes the root away and adds 1 to
\* empty_folders_removed; a scan after that finds nothing and ends the loop.
C31_RootReaped ==
    /\ [][(pc = "reap_scan" /\ Root \in dirs /\ Entries(Root) = 0) =>
            (Root \in Range(empty_folders') /\ pc' = "reap_remove")]_vars
    /\ [][(/\ pc = "reap_remove"
           /\ ~dry_run
           /\ Head(empty_folders) = Root
           /\ Root \notin locked) =>
            /\ Root \notin dirs'
            /\ stats'.empty_folders_removed = stats.empty_folders_removed + 1]_vars
    /\ [][(pc = "reap_scan" /\ Root \in ReapedDirs) =>
            (empty_folders' = <<>> /\ pc' = "summary")]_vars

\* C31 witness: an execute run ended whose reaper removed a directory below the
\* root, then the root, and whose next scan found nothing.
C31_Witness ==
    /\ ~dry_run
    /\ pc = "done"
    /\ Root \in ReapedDirs
    /\ Root \notin dirs
    /\ stats.empty_folders_removed = 3
    /\ attempt = 4

XExtracted(p, k) ==
    \E i \in 1..Len(x_log) : x_log[i].path = p /\ x_log[i].ok /\ x_log[i].level = k

\* C33: a step that removes the archive at a path removes an archive whose own
\* extraction has returned success, and removes at that path for the first
\* time; archives_deleted is the number of paths removed and never exceeds
\* archives_processed.
C33_DeletedAfterOwnSuccess ==
    /\ [][\A p \in XPaths :
            (xtree[p] # 0 /\ xtree'[p] = 0) =>
                (p \notin x_deleted /\ XExtracted(p, xtree[p]))]_vars
    /\ [](/\ xstats.archives_deleted = Cardinality(x_deleted)
          /\ xstats.archives_deleted <= xstats.archives_processed)

\* C34: no step of an extraction replaces a file that stands in the target
\* tree: an archive that stands at a path before a step and after it is the
\* same archive.
C34_NothingOverwritten ==
    [][\A p \in XPaths :
          (xtree[p] # 0 /\ xtree'[p] # 0) => xtree'[p] = xtree[p]]_vars

====
